---- MODULE Spec2Model ----
(***************************************************************************)
(* The example notebooks of sliderule-python as one state machine.         *)
(*                                                                         *)
(* A run executes the code cells of one notebook top to bottom in one      *)
(* kernel.  A cell that raises ends the run (the kernel stops at the first *)
(* failing cell).  Calls into the SlideRule client are external: a remote  *)
(* request is issued, stays outstanding while the call blocks, and returns *)
(* either a result table or an exception.  What the service answers is     *)
(* drawn from small sets.                                                  *)
(*                                                                         *)
(* Spec runs the notebooks.  Three more specifications apply one piece of  *)
(* a notebook to every input of a bounded set: CallSpec calls s3_retrieve  *)
(* with any granule name, ArrivalSpec ends s3_retrieve on any collection   *)
(* of delivered rows, RerunSpec starts the request cell of the widgets     *)
(* notebook in a kernel an earlier run of the cell has used.               *)
(***************************************************************************)
EXTENDS Integers, Sequences, FiniteSets, TLC

VARIABLES
    nb,          \* the notebook being run
    pc,          \* index (in Cells(nb)) of the code cell to run next
    at,          \* position inside the current cell
    status,      \* "running" | "error" | "done"
    error,       \* the exception that ended the run, "none" otherwise
    raised,      \* every exception raised so far: [site, exc, caught]
    effects,     \* visible effects of statements (prints, plots), as labels
    config,      \* process-wide session configuration set by init
    initCalls,   \* number of calls of the session initializer
    issued,      \* every remote request issued so far, in order
    outstanding, \* indices (in issued) of the requests not yet returned
    assetBound,  \* whether the global name `asset` is bound in the kernel
    parms,       \* the notebook variable parms
    tbl,         \* the notebook variables that hold tables: name -> table
    granule,     \* the notebook variable granule (a granule file name)
    s3arg,       \* the granule argument of the running s3_retrieve call
    k,           \* loop index of the loop the current cell is in
    elevations,  \* the list built by the region loop
    frames,      \* the list built by s3_retrieve
    SRwidgets,   \* the widget panel: whether it exists, and its values
    m,           \* the leaflet map: callback, regions, plotted features
    store,       \* the files written so far: <<name, format>> -> content
    regions,     \* the notebook variable regions (bound by the load cell)
    applied      \* the arguments set_values and add_region were called with

ctrl == <<nb, pc, at, status, error>>
sess == <<config, initCalls>>
net  == <<issued, outstanding>>
data == <<parms, tbl, granule>>
loop == <<k, elevations, frames, s3arg>>
ui   == <<SRwidgets, m, store, regions, applied>>
vars == <<ctrl, raised, effects, sess, net, assetBound, data, loop, ui>>

----------------------------------------------------------------------------
(* Bounds of the model *)

\* most rows in one table returned by the service
MaxRows == 1

\* most rows in one of the two tables that are merged
MaxMergeRows == 2

\* extent identifiers are 1..MaxExtentId
MaxExtentId == 2

\* most rows the read of one beam returns
MaxBeamRows == 1

\* most regions drawn on the map
MaxRegions == 2

----------------------------------------------------------------------------
(* Tables *)

\* sliderule.emptyframe(): a GeoDataFrame with a geometry column and no rows
EmptyFrame == [cols |-> {"geometry"}, rows |-> <<>>]

\* columns of a non-empty elevation table returned by the ATL06-SR endpoints
Atl06Cols == {"geometry", "rgt", "cycle", "gt", "segment_id", "h_mean"}

\* ground-track codes of the first two beams (gt1l, gt1r)
GTs == {10, 20}

RECURSIVE SeqsUpTo(_, _)
SeqsUpTo(S, n) ==
    IF n = 0 THEN {<<>>}
    ELSE LET shorter == SeqsUpTo(S, n - 1)
         IN  shorter \cup {Append(s, x) : s \in {t \in shorter : Len(t) = n - 1}, x \in S}

\* what an ATL06-SR request can return: the empty frame when the service
\* sends no record, a frame with the elevation columns otherwise
Atl06Results ==
    {EmptyFrame} \cup
    {[cols |-> Atl06Cols, rows |-> r] :
        r \in {s \in SeqsUpTo([gt : GTs], MaxRows) : Len(s) > 0}}

----------------------------------------------------------------------------
(* The notebooks: the kinds of their code cells, top to bottom *)

NB == {"boulder", "subset", "phoreal", "single", "widgets"}

Cells(n) ==
    CASE n = "boulder" ->
            <<"local", "init", "boulder_request", "local">>
      [] n = "subset" ->
            <<"local", "local", "init", "local", "local", "subset_parms",
              "atl06sp", "subset_atl06p", "local", "subset_plot">>
      [] n = "phoreal" ->
            <<"local", "init", "phoreal_parms", "atl08_request", "local",
              "canopy_plot", "landcover_plot", "pct75", "local",
              "atl06_request", "merge">>
      [] n = "single" ->
            <<"local", "init", "cmr", "single_request", "def", "s3_call",
              "compare", "map_plot">>
      [] n = "widgets" ->
            <<"local", "init", "widgets", "local", "leaflet", "local",
              "region_loop", "local", "local", "geodata", "local", "local",
              "filesaver", "save", "local", "load", "local", "apply">>

Kind == Cells(nb)[pc]

\* arguments of the session initializer in each notebook
InitArgs(n) ==
    CASE n = "boulder" -> [domain |-> "slideruleearth.io", loglevel |-> "default", organization |-> "default"]
      [] n = "subset"  -> [domain |-> "slideruleearth.io", loglevel |-> "CRITICAL", organization |-> "default"]
      [] n = "phoreal" -> [domain |-> "slideruleearth.io", loglevel |-> "INFO", organization |-> "default"]
      [] n = "single"  -> [domain |-> "slideruleearth.io", loglevel |-> "default", organization |-> "developers"]
      [] n = "widgets" -> [domain |-> "slideruleearth.io", loglevel |-> "WARNING", organization |-> "default"]

NoConfig == [domain |-> "unset", loglevel |-> "unset", organization |-> "unset"]

\* granule file names: whether the file-name pattern matches, and the product
NoGranule    == [matches |-> FALSE, prd |-> "none"]
GranuleNames == {[matches |-> TRUE, prd |-> "ATL03"]}

\* the parameter mappings the notebooks write down
NoParms == [unbound |-> TRUE]
BoulderParms == [poly |-> "region", srt |-> "SRT_LAND", cnf |-> "CNF_SURFACE_HIGH",
                 ats |-> 10, cnt |-> 10, len |-> 40, res |-> 20, maxi |-> 1]
SubsetParms  == [poly |-> "grandmesa", srt |-> "SRT_LAND", cnf |-> "CNF_SURFACE_HIGH",
                 ats |-> 10, cnt |-> 10, len |-> 40, res |-> 20, maxi |-> 1]
SingleParms  == [poly |-> "box", cnf |-> 4, ats |-> 20, cnt |-> 10, len |-> 40,
                 res |-> 20, maxi |-> 1]
PhorealParms == [poly |-> "grandmesa", t0 |-> "2019-11-14", t1 |-> "2019-11-15",
                 srt |-> "SRT_LAND", len |-> 100, res |-> 100, pass_invalid |-> TRUE,
                 atl08_class |-> "ground,canopy,top_of_canopy",
                 atl08_fields |-> "h_dif_ref", phoreal |-> "binsize=1,center,waveform"]

----------------------------------------------------------------------------
(* Control *)

Running(kind, where) == status = "running" /\ Kind = kind /\ at = where

\* the cell is finished: the next cell runs, or the run is done
NextCell ==
    /\ pc' = pc + 1
    /\ at' = "start"
    /\ status' = IF pc + 1 > Len(Cells(nb)) THEN "done" ELSE "running"
    /\ UNCHANGED <<nb, error>>

\* a variant for comparison: the failure is swallowed where it is raised and
\* the run goes on
Suppress(site, exc) ==
    /\ raised' = raised \cup {[site |-> site, exc |-> exc, caught |-> TRUE]}
    /\ UNCHANGED <<nb, pc, at, status, error>>

\* an exception nobody catches: it is the outcome of the cell, the rest of the
\* cell does not run and the run stops
Propagate(site, exc) ==
    /\ status' = "error"
    /\ error' = exc
    /\ raised' = raised \cup {[site |-> site, exc |-> exc, caught |-> FALSE]}
    /\ UNCHANGED <<nb, pc, at>>

----------------------------------------------------------------------------
(* Remote requests: a call blocks until the service has answered *)

Request(api, input, p, keep) == [api |-> api, input |-> input, parms |-> p, keep_id |-> keep]

\* a statement that calls the service runs only when the previous call returned
MayIssue == outstanding = {}

Issue(rq) ==
    /\ MayIssue
    /\ issued' = Append(issued, rq)
    /\ outstanding' = outstanding \cup {Len(issued) + 1}

\* the blocking call returns (normally or by raising)
Returned ==
    /\ outstanding # {}
    /\ outstanding' = outstanding \ {Len(issued)}
    /\ UNCHANGED issued

----------------------------------------------------------------------------
(* Cells shared by the notebooks *)

\* imports, displays and plots of fixed data: local library calls
LocalCell ==
    /\ Running("local", "start")
    /\ \/ NextCell /\ UNCHANGED raised
       \/ Propagate("local", "Exception")
    /\ UNCHANGED <<effects, sess, net, assetBound, data, loop, ui>>

\* a variant for comparison: the cell leaves the initializer out
InitCellSkipped ==
    /\ Running("init", "start")
    /\ NextCell
    /\ UNCHANGED <<raised, effects, sess, net, assetBound, data, loop, ui>>

\* icesat2.init / sliderule.init
InitCell ==
    /\ Running("init", "start")
    /\ initCalls' = initCalls + 1
    /\ \/ config' = InitArgs(nb) /\ NextCell /\ UNCHANGED raised
       \/ UNCHANGED config /\ Propagate("init", "Exception")
    /\ UNCHANGED <<effects, net, assetBound, data, loop, ui>>

\* parms = {...}: the cells that only build the parameter mapping; the PhoREAL
\* one calls sliderule.toregion on a file inside the literal
ParmsCell ==
    /\ status = "running" /\ at = "start"
    /\ Kind \in {"subset_parms", "phoreal_parms"}
    /\ \/ /\ parms' = (IF Kind = "subset_parms" THEN SubsetParms ELSE PhorealParms)
          /\ NextCell /\ UNCHANGED raised
       \/ /\ Kind = "phoreal_parms"
          /\ Propagate("toregion", "Exception")
          /\ UNCHANGED parms
    /\ UNCHANGED <<effects, sess, net, assetBound, tbl, granule, loop, ui>>

----------------------------------------------------------------------------
(* Result tables of the requests *)

\* columns of the standard ATL06 subset returned by atl06sp
Atl06SubsetCols == {"geometry", "rgt", "cycle", "gt", "segment_id", "h_li"}

\* columns of a non-empty PhoREAL table
Atl08Cols == {"geometry", "rgt", "cycle", "gt", "x_atc", "h_canopy", "landcover",
              "canopy_h_metrics", "waveform"}

\* rows of a table requested with keep_id=True: row i carries the time index
\* i and an extent_id
IdRows == {[i \in 1..Len(ids) |-> [time |-> i, extent_id |-> ids[i]]] :
              ids \in {s \in SeqsUpTo(1..MaxExtentId, MaxMergeRows) : Len(s) > 0}}

\* the six beams of a granule in the order the notebook lists them, and the
\* ground-track code of each
Beams  == <<"gt1l", "gt1r", "gt2l", "gt2r", "gt3l", "gt3r">>
GtCode == <<10, 20, 30, 40, 50, 60>>

\* rows of the elevations of one granule: one row for each beam that has
\* elevations in the region; either the first beam alone or all six
GranuleRows == {<<[gt |-> GtCode[1]]>>, [i \in 1..Len(Beams) |-> [gt |-> GtCode[i]]]}

\* the columns a request made with keep_id adds
IdCols(keep) == IF keep THEN {"extent_id"} ELSE {}

RequestKinds == {"boulder_request", "atl06sp", "subset_atl06p", "atl08_request",
                 "atl06_request", "single_request"}

\* a variant for comparison: keep_id is passed to the first request only
KeepIdFirstOnly(kind) == kind = "atl08_request"

\* the request cells that pass keep_id=True
KeepId(kind) == kind \in {"atl08_request", "atl06_request"}

\* the call each request cell makes: endpoint, input, keep_id and the notebook
\* variable the result is bound to
RequestOf(kind) ==
    CASE kind = "boulder_request" -> [api |-> "atl06p", input |-> "region", keep_id |-> KeepId(kind), var |-> "gdf"]
      [] kind = "atl06sp"         -> [api |-> "atl06sp", input |-> "ATL06_20181016104402_02720106_006_02.h5", keep_id |-> KeepId(kind), var |-> "sdp"]
      [] kind = "subset_atl06p"   -> [api |-> "atl06p", input |-> "ATL03_20181016104402_02720106_006_02.h5", keep_id |-> KeepId(kind), var |-> "sr"]
      [] kind = "atl08_request"   -> [api |-> "atl08p", input |-> "region", keep_id |-> KeepId(kind), var |-> "atl08"]
      [] kind = "atl06_request"   -> [api |-> "atl06p", input |-> "region", keep_id |-> KeepId(kind), var |-> "atl06"]
      [] kind = "single_request"  -> [api |-> "atl06", input |-> "granule", keep_id |-> KeepId(kind), var |-> "gdf"]

\* what the service can answer to the request of a cell
ResultsOf(kind) ==
    CASE kind \in {"boulder_request", "subset_atl06p"} -> Atl06Results
      [] kind = "atl06sp" ->
            {EmptyFrame} \cup
            {[cols |-> Atl06SubsetCols, rows |-> r] :
                r \in {s \in SeqsUpTo([gt : GTs], MaxRows) : Len(s) > 0}}
      [] kind = "atl08_request" ->
            {EmptyFrame} \cup
            {[cols |-> Atl08Cols \cup IdCols(RequestOf(kind).keep_id), rows |-> r] : r \in IdRows}
      [] kind = "atl06_request" ->
            {EmptyFrame} \cup
            {[cols |-> Atl06Cols \cup IdCols(RequestOf(kind).keep_id), rows |-> r] : r \in IdRows}
      [] kind = "single_request" ->
            {EmptyFrame} \cup {[cols |-> Atl06Cols, rows |-> r] : r \in GranuleRows}

\* the column lookups the statements of a cell make on result tables, in order
Uses(kind) ==
    CASE kind = "boulder_request" -> <<<<"gdf", "rgt">>, <<"gdf", "cycle">>>>
      [] kind = "canopy_plot"     -> <<<<"atl08", "gt">>, <<"atl08", "x_atc">>, <<"atl08", "h_canopy">>>>
      [] kind = "landcover_plot"  -> <<<<"atl08", "landcover">>>>
      [] kind = "pct75"           -> <<<<"atl08", "canopy_h_metrics">>, <<"atl08", "x_atc">>>>
      [] kind = "subset_plot"     -> <<<<"sr", "h_mean">>, <<"sdp", "h_li">>>>
      [] kind = "single_request"  -> <<<<"gdf", "rgt">>, <<"gdf", "cycle">>, <<"gdf", "h_mean">>>>
      [] kind = "map_plot"        -> <<<<"gdf", "gt">>>>
      [] kind = "compare"         -> <<<<"gdf", "gt">>, <<"atl06", "gt">>, <<"atl06", "h_mean">>,
                                       <<"atl06", "segment_id">>, <<"gdf", "segment_id">>>>
      [] kind = "merge"           -> <<<<"atl08", "extent_id">>, <<"atl06", "extent_id">>>>
      [] OTHER                    -> <<>>

\* a variant for comparison: a lookup of a missing column goes unnoticed
NothingMissing(kind, tb) == {}

\* the lookups of a cell that find no such column in the tables tb
Missing(kind, tb) ==
    {i \in 1..Len(Uses(kind)) : Uses(kind)[i][2] \notin tb[Uses(kind)[i][1]].cols}

\* the statements after a call or at the start of a cell: when a column is
\* missing the first such lookup raises KeyError (at the site named by the
\* column), which nothing catches; otherwise the statements run to the end of
\* the cell
RestOfCell(kind, tb) ==
    IF Missing(kind, tb) = {}
    THEN /\ effects' = effects \cup {<<pc, "output">>}
         /\ NextCell /\ UNCHANGED raised
    ELSE /\ Propagate(Uses(kind)[CHOOSE i \in Missing(kind, tb) :
                                    \A j \in Missing(kind, tb) : i <= j][2], "KeyError")
         /\ UNCHANGED effects

\* rx.findall(name): the list of matches of the granule file-name pattern,
\* each match giving the product prefix (PRD) and the other fields
RxFindall(g) == IF g.matches THEN <<g.prd>> ELSE <<>>

\* x = icesat2.<api>(parms, ...): the request is sent and the call blocks; the
\* single-track cell first takes the file-name fields of granule apart
RequestCell ==
    /\ status = "running" /\ at = "start" /\ Kind \in RequestKinds
    /\ IF Kind = "single_request" /\ RxFindall(granule) = <<>>
       THEN \* .pop() of an empty list of matches
            /\ Propagate("rx.findall.pop", "IndexError")
            /\ UNCHANGED <<parms, net>>
       ELSE LET p  == CASE Kind = "boulder_request" -> BoulderParms
                        [] Kind = "single_request"  -> SingleParms
                        [] OTHER                    -> parms
                rq == RequestOf(Kind)
            IN  /\ parms' = p
                /\ Issue(Request(rq.api, rq.input, p, rq.keep_id))
                /\ at' = "wait"
                /\ UNCHANGED <<nb, pc, status, error, raised>>
    /\ UNCHANGED <<effects, sess, assetBound, tbl, granule, loop, ui>>

\* ... the call returns a table, which is bound, and the rest of the cell
\* runs; or the call raises
RequestReturn ==
    /\ status = "running" /\ at = "wait" /\ Kind \in RequestKinds
    /\ Returned
    /\ \/ \E t \in ResultsOf(Kind) :
            LET tb == [tbl EXCEPT ![RequestOf(Kind).var] = t]
            IN  tbl' = tb /\ RestOfCell(Kind, tb)
       \/ /\ Propagate(RequestOf(Kind).api, "Exception")
          /\ UNCHANGED <<tbl, effects>>
    /\ UNCHANGED <<sess, assetBound, parms, granule, loop, ui>>

\* cells that select from and plot the result tables
PlotCell ==
    /\ status = "running" /\ at = "start"
    /\ Kind \in {"canopy_plot", "landcover_plot", "subset_plot", "map_plot"}
    /\ \/ RestOfCell(Kind, tbl)
       \/ /\ Missing(Kind, tbl) = {}
          /\ Propagate("plot", "Exception")
          /\ UNCHANGED effects
    /\ UNCHANGED <<sess, net, assetBound, data, loop, ui>>

\* atl08['75'] = atl08.apply(...): adds a column to atl08, then plots it
Pct75Cell ==
    /\ Running("pct75", "start")
    /\ IF "canopy_h_metrics" \in tbl["atl08"].cols
       THEN LET tb == [tbl EXCEPT !["atl08"].cols = @ \cup {"75"}]
            IN  tbl' = tb /\ RestOfCell("pct75", tb)
       ELSE UNCHANGED tbl /\ RestOfCell("pct75", tbl)
    /\ UNCHANGED <<sess, net, assetBound, parms, granule, loop, ui>>

----------------------------------------------------------------------------
(* The merge of the PhoREAL notebook *)

\* the value pandas fills in where a left row has no match
NaN == 0

\* the rows of right whose key equals the key of the left row x, in right's order
Matches(x, rrows) == SelectSeq(rrows, LAMBDA y : y.extent_id = x.extent_id)

\* one row of the merged table: the key, and the rows it was built from (named
\* by their time index; right is NaN when no right row matched)
JoinRow(x, right) == [extent_id |-> x.extent_id, left |-> x.time, right |-> right]

\* how='inner', for comparison: only the left rows that have a match, once
\* per matching right row
RECURSIVE InnerJoin(_, _)
InnerJoin(lrows, rrows) ==
    IF lrows = <<>> THEN <<>>
    ELSE LET x  == Head(lrows)
             ms == Matches(x, rrows)
         IN  [j \in 1..Len(ms) |-> JoinRow(x, ms[j].time)] \o InnerJoin(Tail(lrows), rrows)

\* how='left': every left row in left's order, once per matching right row,
\* and once with the right columns empty when nothing matches
RECURSIVE LeftJoin(_, _)
LeftJoin(lrows, rrows) ==
    IF lrows = <<>> THEN <<>>
    ELSE LET x    == Head(lrows)
             ms   == Matches(x, rrows)
             part == IF ms = <<>> THEN <<JoinRow(x, NaN)>>
                     ELSE [j \in 1..Len(ms) |-> JoinRow(x, ms[j].time)]
         IN  part \o LeftJoin(Tail(lrows), rrows)

\* geopandas.pd.merge(left, right, on='extent_id', how='left', suffixes=...):
\* the joined rows under a fresh index 0..n-1; columns both tables have (other
\* than the key) appear twice, once with each suffix
pdMerge(left, right) ==
    LET joined == LeftJoin(left.rows, right.rows)
    IN  [cols     |-> ((left.cols \cup right.cols) \ (left.cols \cap right.cols)) \cup {"extent_id"},
         suffixed |-> (left.cols \cap right.cols) \ {"extent_id"},
         rows     |-> [i \in 1..Len(joined) |->
                         [time |-> i - 1, extent_id |-> joined[i].extent_id,
                          left |-> joined[i].left, right |-> joined[i].right]]]

\* DataFrame.index: the row labels
Index(t) == [i \in 1..Len(t.rows) |-> t.rows[i].time]

\* DataFrame.set_axis(labels) accepts only as many labels as there are rows
SetAxisFits(t, labels) == Len(labels) = Len(t.rows)

\* a variant for comparison: the table keeps the index it had
SetAxisKeepsIndex(t, labels) == t

SetAxis(t, labels) ==
    [t EXCEPT !.rows = [i \in 1..Len(t.rows) |-> [t.rows[i] EXCEPT !.time = labels[i]]]]

\* gdf = geopandas.pd.merge(atl08, atl06, on='extent_id', how='left',
\*                          suffixes=(...)).set_axis(atl08.index)
MergeCell ==
    /\ Running("merge", "start")
    /\ LET left  == tbl["atl08"]
           right == tbl["atl06"]
       IN  IF Missing("merge", tbl) # {}
           THEN RestOfCell("merge", tbl) /\ UNCHANGED tbl
           ELSE IF ~SetAxisFits(pdMerge(left, right), Index(left))
           THEN Propagate("set_axis", "ValueError") /\ UNCHANGED <<tbl, effects>>
           ELSE /\ tbl' = [tbl EXCEPT !["gdf"] = SetAxis(pdMerge(left, right), Index(left))]
                /\ effects' = effects \cup {<<pc, "output">>}
                /\ NextCell /\ UNCHANGED raised
    /\ UNCHANGED <<sess, net, assetBound, parms, granule, loop, ui>>

----------------------------------------------------------------------------
(* single_track_demo.ipynb *)

\* what the metadata search can return: the names of the ATL03 granules found
CmrResults == {<<>>} \cup {<<g>> : g \in GranuleNames}

\* resources = earthdata.cmr(short_name='ATL03', ...)
CmrCell ==
    /\ Running("cmr", "start")
    /\ Issue(Request("cmr", "ATL03", NoParms, FALSE))
    /\ at' = "wait"
    /\ UNCHANGED <<nb, pc, status, error, raised, effects, sess, assetBound, data, loop, ui>>

\* ... granule = resources[0]
CmrReturn ==
    /\ Running("cmr", "wait")
    /\ Returned
    /\ \/ \E resources \in CmrResults :
            IF resources = <<>>
            THEN Propagate("resources[0]", "IndexError") /\ UNCHANGED granule
            ELSE granule' = resources[1] /\ NextCell /\ UNCHANGED raised
       \/ Propagate("cmr", "Exception") /\ UNCHANGED granule
    /\ UNCHANGED <<effects, sess, assetBound, parms, tbl, loop, ui>>

\* def s3_retrieve(granule, **kwargs): binds the function, calls nothing
DefCell ==
    /\ Running("def", "start")
    /\ NextCell
    /\ UNCHANGED <<raised, effects, sess, net, assetBound, data, loop, ui>>

\* atl06_granule = f'ATL06_{YY}{MM}...{AUX}.h5': the name of the standard
\* product of the granule the file-name fields were taken from
Atl06Granule(g) == [matches |-> g.matches, prd |-> "ATL06"]

\* a variant for comparison: every product has a dataset group
SegmentGroupAnyProduct(prd) == "land_ice_segments"

\* the dataset group s3_retrieve reads for a product; the name stays unbound
\* for any other product
SegmentGroup(prd) ==
    CASE prd = "ATL06" -> "land_ice_segments"
      [] prd = "ATL08" -> "land_segments"
      [] OTHER         -> "unbound"

\* columns of the frame s3_retrieve builds for an ATL06 beam (the base names
\* of the datasets read, and time, rgt, cycle, gt)
S3DataCols == {"segment_id", "delta_time", "latitude", "longitude", "h_li", "h_mean",
               "time", "rgt", "cycle", "gt"}

\* the frame of beam number b when the read returned n rows: row i carries
\* its time, the ground-track code of the beam and whether its point lies in
\* the polygon
BeamFrame(b, n) ==
    [cols |-> S3DataCols,
     rows |-> [i \in 1..n |-> [time |-> 10 * b + i, gt |-> GtCode[b], inside |-> TRUE]]]

\* whether a failure raised by the statements of s3_retrieve at this site is
\* caught there (the two try blocks: the read and time conversion of a beam,
\* and the concatenation of the frames)
Caught(site) == site \in {"h5p", "concat"}

\* an exception raised at a site: swallowed when the site is guarded
Swallow(site, exc) ==
    /\ Caught(site)
    /\ raised' = raised \cup {[site |-> site, exc |-> exc, caught |-> TRUE]}

\* atl06 = s3_retrieve(atl06_granule, polygon=region_gdf): the call enters
\* the function, which takes the file name apart
S3Enter ==
    /\ Running("s3_call", "start")
    /\ LET arg == Atl06Granule(granule)
       IN  IF RxFindall(arg) = <<>>
           THEN Propagate("rx.findall.pop", "IndexError") /\ UNCHANGED loop
           ELSE /\ s3arg' = arg
                /\ frames' = <<>>
                /\ k' = 1
                /\ at' = "beam"
                /\ UNCHANGED <<nb, pc, status, error, raised, elevations>>
    /\ UNCHANGED <<effects, sess, net, assetBound, data, ui>>

\* a variant for comparison: the read is made whether or not `asset` is bound
S3BeamAssetDefault ==
    /\ Running("s3_call", "beam")
    /\ k <= Len(Beams)
    /\ IF SegmentGroup(s3arg.prd) = "unbound"
       THEN /\ Propagate("geodatasets", "UnboundLocalError")
            /\ UNCHANGED <<net, loop>>
       ELSE /\ Issue(Request("h5p", Beams[k], NoParms, FALSE))
            /\ at' = "beam_wait"
            /\ UNCHANGED <<nb, pc, status, error, raised, loop>>
    /\ UNCHANGED <<effects, sess, assetBound, data, ui>>

\* for gtx in [...]: geodatasets = [...]; try: h5.h5p(geodatasets, granule, asset)
S3Beam ==
    /\ Running("s3_call", "beam")
    /\ k <= Len(Beams)
    /\ IF SegmentGroup(s3arg.prd) = "unbound"
       THEN \* the f-string reads segment_group outside the try block
            /\ Propagate("geodatasets", "UnboundLocalError")
            /\ UNCHANGED <<net, loop>>
       ELSE IF ~assetBound
       THEN \* evaluating the argument `asset` raises inside the try block
            /\ Swallow("h5p", "NameError")
            /\ k' = k + 1
            /\ UNCHANGED <<ctrl, net, elevations, frames, s3arg>>
       ELSE /\ Issue(Request("h5p", Beams[k], NoParms, FALSE))
            /\ at' = "beam_wait"
            /\ UNCHANGED <<nb, pc, status, error, raised, loop>>
    /\ UNCHANGED <<effects, sess, assetBound, data, ui>>

\* a variant for comparison: the handler reads the same beam again
S3BeamReturnRetry ==
    /\ Running("s3_call", "beam_wait")
    /\ Returned
    /\ \/ \E n \in 0..MaxBeamRows :
            /\ frames' = Append(frames, BeamFrame(k, n))
            /\ k' = k + 1
            /\ UNCHANGED raised
       \/ /\ Swallow("h5p", "Exception")
          /\ UNCHANGED <<frames, k>>
    /\ at' = "beam"
    /\ UNCHANGED <<nb, pc, status, error, effects, sess, assetBound, data,
                   elevations, s3arg, ui>>

\* a variant for comparison: a failed read ends the loop over the beams
S3BeamReturnStops ==
    /\ Running("s3_call", "beam_wait")
    /\ Returned
    /\ \/ \E n \in 0..MaxBeamRows :
            /\ frames' = Append(frames, BeamFrame(k, n))
            /\ k' = k + 1
            /\ UNCHANGED raised
       \/ /\ Swallow("h5p", "Exception")
          /\ k' = Len(Beams) + 1
          /\ UNCHANGED frames
    /\ at' = "beam"
    /\ UNCHANGED <<nb, pc, status, error, effects, sess, assetBound, data,
                   elevations, s3arg, ui>>

\* ... the read returns: the frame of the beam is collected (else:), or the
\* read or the time conversion raised (except: pass)
S3BeamReturn ==
    /\ Running("s3_call", "beam_wait")
    /\ Returned
    /\ \/ \E n \in 0..MaxBeamRows :
            /\ frames' = Append(frames, BeamFrame(k, n))
            /\ UNCHANGED raised
       \/ /\ Swallow("h5p", "Exception")
          /\ UNCHANGED frames
    /\ k' = k + 1
    /\ at' = "beam"
    /\ UNCHANGED <<nb, pc, status, error, effects, sess, assetBound, data,
                   elevations, s3arg, ui>>

\* gpd.pd.concat(frames): the rows of the frames one after the other
RECURSIVE ConcatRows(_)
ConcatRows(fs) == IF fs = <<>> THEN <<>> ELSE Head(fs).rows \o ConcatRows(Tail(fs))

Concat(fs) == [cols |-> UNION {fs[i].cols : i \in 1..Len(fs)}, rows |-> ConcatRows(fs)]

\* gpd.overlay(gdf, polygon, how='intersection'): the rows whose point lies
\* in the polygon
Overlay(rows) == SelectSeq(rows, LAMBDA r : r.inside)

\* a variant for comparison: the rows stay in the order they arrived in
ArrivalOrder(rows, S) == {rows}

\* gdf.sort_index(): the rows by increasing index; rows with equal index come
\* out in any order (the default sort kind is not stable)
RECURSIVE SortedOrders(_, _)
SortedOrders(rows, S) ==
    IF S = {} THEN {<<>>}
    ELSE LET least == {i \in S : \A j \in S : rows[i].time <= rows[j].time}
         IN  UNION {{<<rows[i]>> \o rest : rest \in SortedOrders(rows, S \ {i})} : i \in least}

\* a variant for comparison: every row stays
KeepDuplicated(rows) == rows

\* gdf[~gdf.index.duplicated()]: of the rows with one index value the first stays
RECURSIVE DropDuplicated(_)
DropDuplicated(rows) ==
    IF rows = <<>> THEN <<>>
    ELSE LET front == SubSeq(rows, 1, Len(rows) - 1)
             last  == rows[Len(rows)]
         IN  IF \E i \in 1..Len(front) : front[i].time = last.time
             THEN DropDuplicated(front)
             ELSE Append(DropDuplicated(front), last)

\* the tables s3_retrieve can return for the concatenated frame df: geometry
\* replaces the coordinate columns, the rows in the polygon are kept, the index
\* key becomes the index, the rows are sorted by it and duplicates dropped
S3Results(df, polygon, index_key) ==
    LET kept == IF polygon THEN Overlay(df.rows) ELSE df.rows
    IN  {[cols |-> ((df.cols \ {"longitude", "latitude"}) \cup {"geometry"}) \ {index_key},
          rows |-> DropDuplicated(o)] : o \in SortedOrders(kept, 1..Len(kept))}

\* a variant for comparison: with no frame the failure of the concatenation
\* leaves s3_retrieve and ends the cell
S3FinishRaises ==
    /\ Running("s3_call", "beam")
    /\ k > Len(Beams)
    /\ IF frames = <<>>
       THEN /\ Propagate("concat", "ValueError")
            /\ UNCHANGED tbl
       ELSE /\ \E t \in S3Results(Concat(frames), TRUE, "time") :
                   tbl' = [tbl EXCEPT !["atl06"] = t]
            /\ NextCell
            /\ UNCHANGED raised
    /\ UNCHANGED <<effects, sess, net, assetBound, parms, granule, loop, ui>>

\* ... after the last beam: the frames are concatenated and the result is
\* post-processed and returned; with no frame the concatenation raises and
\* the empty frame is returned
S3Finish ==
    /\ Running("s3_call", "beam")
    /\ k > Len(Beams)
    /\ IF frames = <<>>
       THEN /\ Swallow("concat", "ValueError")
            /\ tbl' = [tbl EXCEPT !["atl06"] = EmptyFrame]
       ELSE /\ \E t \in S3Results(Concat(frames), TRUE, "time") :
                   tbl' = [tbl EXCEPT !["atl06"] = t]
            /\ UNCHANGED raised
    /\ NextCell
    /\ UNCHANGED <<effects, sess, net, assetBound, parms, granule, loop, ui>>

\* Create Elevation Plot: the figure with one axis per beam
CompareStart ==
    /\ Running("compare", "start")
    /\ k' = 1
    /\ at' = "track"
    /\ UNCHANGED <<nb, pc, status, error, raised, effects, sess, net, assetBound,
                   data, elevations, frames, s3arg, ui>>

\* the rows of a table on one ground track
OnTrack(t, code) == SelectSeq(t.rows, LAMBDA r : r.gt = code)

\* a variant for comparison: the standard profile is drawn on the first axis
\* only
CompareTrackFirstOverlaid ==
    /\ Running("compare", "track")
    /\ k <= Len(Beams)
    /\ IF Missing("compare", tbl) # {}
       THEN /\ RestOfCell("compare", tbl)
            /\ UNCHANGED k
       ELSE IF OnTrack(tbl["gdf"], GtCode[k]) = <<>>
       THEN /\ Propagate("sr[segment_id][0]", "IndexError")
            /\ UNCHANGED <<effects, k>>
       ELSE /\ effects' = effects \cup
                   ({<<pc, "SlideRule", Beams[k]>>} \cup
                    (IF k = 1 THEN {<<pc, "ASAS", Beams[k]>>} ELSE {}))
            /\ k' = k + 1
            /\ UNCHANGED <<ctrl, raised>>
    /\ UNCHANGED <<sess, net, assetBound, data, elevations, frames, s3arg, ui>>

\* for s,gt in enumerate(tracks.keys()): select the rows of the track from
\* gdf and atl06 and plot both profiles on axis s
CompareTrack ==
    /\ Running("compare", "track")
    /\ k <= Len(Beams)
    /\ IF Missing("compare", tbl) # {}
       THEN /\ RestOfCell("compare", tbl)
            /\ UNCHANGED k
       ELSE IF OnTrack(tbl["gdf"], GtCode[k]) = <<>>
       THEN \* sr["segment_id"][0] of a selection without rows
            /\ Propagate("sr[segment_id][0]", "IndexError")
            /\ UNCHANGED <<effects, k>>
       ELSE /\ effects' = effects \cup {<<pc, "SlideRule", Beams[k]>>, <<pc, "ASAS", Beams[k]>>}
            /\ k' = k + 1
            /\ UNCHANGED <<ctrl, raised>>
    /\ UNCHANGED <<sess, net, assetBound, data, elevations, frames, s3arg, ui>>

\* ... after the loop: labels, legend, plt.show()
CompareEnd ==
    /\ Running("compare", "track")
    /\ k > Len(Beams)
    /\ effects' = effects \cup {<<pc, "output">>}
    /\ NextCell
    /\ UNCHANGED <<raised, sess, net, assetBound, data, loop, ui>>

----------------------------------------------------------------------------
(* api_widgets_demo.ipynb *)

\* values of the segment-length widget, the passes (reference ground track
\* and cycle) elevations can lie on, and the file names and formats the file
\* widgets offer
Lengths == {20, 40}
Passes  == {[rgt |-> 1, cycle |-> 1], [rgt |-> 2, cycle |-> 3]}
Files   == {"a"}
Formats == {"hdf", "netcdf"}

NoWidgets == [created |-> FALSE, length |-> 40, rgt |-> 0, cycle |-> 0,
              file |-> "a", format |-> "hdf", chooser |-> FALSE]
NoMap     == [created |-> FALSE, callback |-> "none", regions |-> <<>>, plotted |-> <<>>,
              selected |-> 0]
NoApplied == [called |-> FALSE, parms |-> NoParms, regions |-> <<>>]

\* SRwidgets = ipysliderule.widgets(); the panel is displayed
WidgetsCell ==
    /\ Running("widgets", "start")
    /\ \/ /\ SRwidgets' = [SRwidgets EXCEPT !.created = TRUE]
          /\ NextCell /\ UNCHANGED raised
       \/ Propagate("widgets", "Exception") /\ UNCHANGED SRwidgets
    /\ UNCHANGED <<effects, sess, net, assetBound, data, loop, m, store, regions, applied>>

\* a variant for comparison: the map is created and no click handler is
\* installed on it
LeafletCellNoCallback ==
    /\ Running("leaflet", "start")
    /\ \/ /\ m' = [m EXCEPT !.created = TRUE]
          /\ NextCell /\ UNCHANGED raised
       \/ Propagate("leaflet", "Exception") /\ UNCHANGED m
    /\ UNCHANGED <<effects, sess, net, assetBound, data, loop, SRwidgets, store, regions, applied>>

\* m = ipysliderule.leaflet(...); m.add_selected_callback(SRwidgets.atl06_click_handler)
LeafletCell ==
    /\ Running("leaflet", "start")
    /\ \/ /\ m' = [m EXCEPT !.created = TRUE, !.callback = "atl06_click_handler"]
          /\ NextCell /\ UNCHANGED raised
       \/ Propagate("leaflet", "Exception") /\ UNCHANGED m
    /\ UNCHANGED <<effects, sess, net, assetBound, data, loop, SRwidgets, store, regions, applied>>

\* display(SRwidgets.filesaver): the file chooser is on screen
FilesaverCell ==
    /\ Running("filesaver", "start")
    /\ SRwidgets' = [SRwidgets EXCEPT !.chooser = TRUE]
    /\ NextCell
    /\ UNCHANGED <<raised, effects, sess, net, assetBound, data, loop, m, store, regions, applied>>

\* the kernel is idle between two cells: the user can act on the widgets
Idle == status = "running" /\ at = "start" /\ nb = "widgets"

\* the user draws a polygon or bounding box on the map: it becomes a region
\* (polygons are named by the order they are drawn in)
UserDraw ==
    /\ Idle /\ m.created
    /\ Len(m.regions) < MaxRegions
    /\ m' = [m EXCEPT !.regions = Append(@, Len(@) + 1)]
    /\ UNCHANGED <<ctrl, raised, effects, sess, net, assetBound, data, loop,
                   SRwidgets, store, regions, applied>>

\* the user moves a parameter widget
UserSetValue ==
    /\ Idle /\ SRwidgets.created
    /\ \E v \in Lengths \ {SRwidgets.length} : SRwidgets' = [SRwidgets EXCEPT !.length = v]
    /\ UNCHANGED <<ctrl, raised, effects, sess, net, assetBound, data, loop,
                   m, store, regions, applied>>

\* the user picks a file name and format in the file chooser
UserChooseFile ==
    /\ Idle /\ SRwidgets.chooser
    /\ \E f \in Files, fmt \in Formats :
          /\ <<f, fmt>> # <<SRwidgets.file, SRwidgets.format>>
          /\ SRwidgets' = [SRwidgets EXCEPT !.file = f, !.format = fmt]
    /\ UNCHANGED <<ctrl, raised, effects, sess, net, assetBound, data, loop,
                   m, store, regions, applied>>

\* SRwidgets.atl06_click_handler: the RGT and cycle selectors take the values
\* of the clicked elevation
atl06_click_handler(w, feature) == [w EXCEPT !.rgt = feature.rgt, !.cycle = feature.cycle]

\* a variant for comparison: the click also puts the region of the clicked
\* elevation on the region list
UserClickAddsRegion ==
    /\ Idle /\ m.created
    /\ \E i \in 1..Len(m.plotted) :
          /\ m' = [m EXCEPT !.selected = i, !.regions = Append(@, m.plotted[i].region)]
          /\ SRwidgets' = IF m.callback = "atl06_click_handler"
                          THEN atl06_click_handler(SRwidgets, m.plotted[i])
                          ELSE SRwidgets
    /\ UNCHANGED <<ctrl, raised, effects, sess, net, assetBound, data, loop,
                   store, regions, applied>>

\* the user clicks one of the elevations plotted on the map; the map calls
\* the callback installed with add_selected_callback
UserClick ==
    /\ Idle /\ m.created
    /\ \E i \in 1..Len(m.plotted) :
          /\ m' = [m EXCEPT !.selected = i]
          /\ SRwidgets' = IF m.callback = "atl06_click_handler"
                          THEN atl06_click_handler(SRwidgets, m.plotted[i])
                          ELSE SRwidgets
    /\ UNCHANGED <<ctrl, raised, effects, sess, net, assetBound, data, loop,
                   store, regions, applied>>

\* SRwidgets.build_atl06(): the parameters from the current widget values
build_atl06(w) == [len |-> w.length]

\* parms[key] = value
WithKey(p, key, value) ==
    [x \in DOMAIN p \cup {key} |-> IF x = key THEN value ELSE p[x]]

\* what the service can answer to the request for one region: no record, or
\* the elevations of one pass over the region
RegionResults(poly) ==
    {EmptyFrame} \cup
    {[cols |-> Atl06Cols, rows |-> r] :
        r \in {[i \in 1..n |-> [region |-> poly, rgt |-> x.rgt, cycle |-> x.cycle]] :
                 n \in 1..MaxRows, x \in Passes}}

\* a variant for comparison: a run of the cell goes on with the parameters
\* and the list of results an earlier run left
LoopStartKeepsResults ==
    /\ Running("region_loop", "start")
    /\ parms' = IF parms = NoParms THEN build_atl06(SRwidgets) ELSE parms
    /\ elevations' = IF elevations = <<>> THEN <<EmptyFrame>> ELSE elevations
    /\ k' = 1
    /\ at' = "loop"
    /\ UNCHANGED <<nb, pc, status, error, raised, effects, sess, net, assetBound,
                   tbl, granule, frames, s3arg, ui>>

\* parms = SRwidgets.build_atl06(); elevations = [sliderule.emptyframe()]
LoopStart ==
    /\ Running("region_loop", "start")
    /\ parms' = build_atl06(SRwidgets)
    /\ elevations' = <<EmptyFrame>>
    /\ k' = 1
    /\ at' = "loop"
    /\ UNCHANGED <<nb, pc, status, error, raised, effects, sess, net, assetBound,
                   tbl, granule, frames, s3arg, ui>>

\* a variant for comparison: the loop sends the request of a region and goes
\* on to the next region without waiting for the answer
LoopIssueAsync ==
    /\ Running("region_loop", "loop")
    /\ k <= Len(m.regions)
    /\ LET p == WithKey(parms, "poly", m.regions[k])
       IN  /\ parms' = p
           /\ issued' = Append(issued, Request("atl06p", k, p, FALSE))
           /\ outstanding' = outstanding \cup {Len(issued) + 1}
    /\ k' = k + 1
    /\ UNCHANGED <<ctrl, raised, effects, sess, assetBound,
                   tbl, granule, elevations, frames, s3arg, ui>>

\* for poly in m.regions: parms["poly"] = poly; icesat2.atl06p(parms)
LoopIssue ==
    /\ Running("region_loop", "loop")
    /\ k <= Len(m.regions)
    /\ LET p == WithKey(parms, "poly", m.regions[k])
       IN  /\ parms' = p
           /\ Issue(Request("atl06p", k, p, FALSE))
    /\ at' = "wait"
    /\ UNCHANGED <<nb, pc, status, error, raised, effects, sess, assetBound,
                   tbl, granule, loop, ui>>

\* ... elevations.append(<the result>)
LoopReturn ==
    /\ Running("region_loop", "wait")
    /\ Returned
    /\ \/ \E t \in RegionResults(m.regions[k]) :
            /\ elevations' = Append(elevations, t)
            /\ k' = k + 1
            /\ at' = "loop"
            /\ UNCHANGED <<nb, pc, status, error, raised>>
       \/ /\ Propagate("atl06p", "Exception")
          /\ UNCHANGED <<elevations, k>>
    /\ UNCHANGED <<effects, sess, assetBound, data, frames, s3arg, ui>>

\* gdf = geopandas.pd.concat(elevations)
LoopEnd ==
    /\ Running("region_loop", "loop")
    /\ k > Len(m.regions)
    /\ tbl' = [tbl EXCEPT !["gdf"] = Concat(elevations)]
    /\ NextCell
    /\ UNCHANGED <<raised, effects, sess, net, assetBound, parms, granule, loop, ui>>

\* m.GeoData(gdf, column_name=SRwidgets.variable.value, ...): the elevations
\* are drawn on the map
GeoDataCell ==
    /\ Running("geodata", "start")
    /\ \/ /\ m' = [m EXCEPT !.plotted = tbl["gdf"].rows, !.selected = 0]
          /\ NextCell /\ UNCHANGED raised
       \/ Propagate("GeoData", "Exception") /\ UNCHANGED m
    /\ UNCHANGED <<effects, sess, net, assetBound, data, loop, SRwidgets, store, regions, applied>>

\* the file written by io.to_file: the table without its geometry column,
\* which is stored as coordinate variables, the parameters as attributes and
\* the regions as polygon attributes, in the container of the format
NoFile == [written |-> FALSE]

to_file(t, format, parameters, regs) ==
    [written    |-> TRUE,
     container  |-> format,
     variables  |-> (t.cols \ {"geometry"}) \cup {"latitude", "longitude"},
     records    |-> t.rows,
     attributes |-> parameters,
     polygons   |-> regs]

\* io.from_file with return_parameters and return_regions: the table with
\* its geometry rebuilt from the coordinate variables, the parameters and
\* the regions
from_file(f) ==
    [gdf     |-> [cols |-> (f.variables \ {"latitude", "longitude"}) \cup {"geometry"},
                  rows |-> f.records],
     parms   |-> f.attributes,
     regions |-> f.polygons]

\* io.to_file(<a table>, ...) with the keyword regions left out
to_file_no_regions(p) == to_file(tbl["gdf"], SRwidgets.format, p, <<>>)

\* io.to_file(elevations[0], ...): the first frame of the list in place of gdf
to_file_first_frame(p) == to_file(elevations[1], SRwidgets.format, p, m.regions)

\* io.to_file(gdf, SRwidgets.file, format=SRwidgets.format, driver='pytables',
\*     parameters=parms, regions=m.regions, verbose=True)
to_file_call(p) == to_file(tbl["gdf"], SRwidgets.format, p, m.regions)

\* version = sliderule.get_version()
SaveCell ==
    /\ Running("save", "start")
    /\ Issue(Request("version", "version", NoParms, FALSE))
    /\ at' = "wait"
    /\ UNCHANGED <<nb, pc, status, error, raised, effects, sess, assetBound, data, loop, ui>>

\* ... parms['version'] = ...; parms['commit'] = ...; io.to_file(...)
SaveReturn ==
    /\ Running("save", "wait")
    /\ Returned
    /\ \/ LET p == WithKey(WithKey(parms, "version", "v"), "commit", "c")
          IN  /\ parms' = p
              /\ \/ /\ store' = [store EXCEPT ![<<SRwidgets.file, SRwidgets.format>>] =
                                      to_file_call(p)]
                    /\ NextCell /\ UNCHANGED raised
                 \/ /\ Propagate("to_file", "Exception")
                    /\ UNCHANGED store
       \/ /\ Propagate("get_version", "Exception")
          /\ UNCHANGED <<parms, store>>
    /\ UNCHANGED <<effects, sess, assetBound, tbl, granule, loop, SRwidgets, m, regions, applied>>

\* gdf,parms,regions = io.from_file(SRwidgets.file, format=SRwidgets.format,
\*     return_parameters=True, return_regions=True)
LoadCell ==
    /\ Running("load", "start")
    /\ LET f == store[<<SRwidgets.file, SRwidgets.format>>]
       IN  IF ~f.written
           THEN Propagate("from_file", "FileNotFoundError") /\ UNCHANGED <<parms, tbl, regions>>
           ELSE \/ /\ tbl' = [tbl EXCEPT !["gdf"] = from_file(f).gdf]
                   /\ parms' = from_file(f).parms
                   /\ regions' = from_file(f).regions
                   /\ NextCell /\ UNCHANGED raised
                \/ /\ Propagate("from_file", "Exception")
                   /\ UNCHANGED <<parms, tbl, regions>>
    /\ UNCHANGED <<effects, sess, net, assetBound, granule, loop, SRwidgets, m, store, applied>>

\* SRwidgets.set_values(parms): the widgets take the values of the parameters
set_values(w, p) == IF "len" \in DOMAIN p THEN [w EXCEPT !.length = p["len"]] ELSE w

\* m.add_region(regions): the regions are added to the map
add_region(mp, regs) == [mp EXCEPT !.regions = @ \o regs]

\* SRwidgets.set_values(parms); m.add_region(regions)
ApplyCell ==
    /\ Running("apply", "start")
    /\ \/ /\ SRwidgets' = set_values(SRwidgets, parms)
          /\ m' = add_region(m, regions)
          /\ applied' = [called |-> TRUE, parms |-> parms, regions |-> regions]
          /\ NextCell /\ UNCHANGED raised
       \/ /\ Propagate("apply", "Exception")
          /\ UNCHANGED <<SRwidgets, m, applied>>
    /\ UNCHANGED <<effects, sess, net, assetBound, data, loop, store, regions>>

----------------------------------------------------------------------------
\* the notebook variables that hold tables
TableVars == {"gdf", "atl06", "atl08", "sdp", "sr"}

\* a name no cell has assigned yet
Unbound == [cols |-> {}, rows |-> <<>>]

\* a kernel at the first cell of a notebook; the notebooks never assign the
\* name `asset`, and a kernel in which something outside the notebook has
\* bound it is an initial state as well
Init ==
    /\ nb \in NB
    /\ pc = 1
    /\ at = "start"
    /\ status = "running"
    /\ error = "none"
    /\ raised = {}
    /\ effects = {}
    /\ config = NoConfig
    /\ initCalls = 0
    /\ issued = <<>>
    /\ outstanding = {}
    /\ assetBound \in BOOLEAN
    /\ parms = NoParms
    /\ tbl = [v \in TableVars |-> Unbound]
    /\ granule = NoGranule
    /\ s3arg = NoGranule
    /\ k = 0
    /\ elevations = <<>>
    /\ frames = <<>>
    /\ SRwidgets = NoWidgets
    /\ m = NoMap
    /\ store = [f \in Files \X Formats |-> NoFile]
    /\ regions = <<>>
    /\ applied = NoApplied

Next ==
    \/ LocalCell
    \/ InitCell
    \/ ParmsCell
    \/ RequestCell
    \/ RequestReturn
    \/ PlotCell
    \/ Pct75Cell
    \/ MergeCell
    \/ CmrCell
    \/ CmrReturn
    \/ DefCell
    \/ S3Enter
    \/ S3Beam
    \/ S3BeamReturn
    \/ S3Finish
    \/ CompareStart
    \/ CompareTrack
    \/ CompareEnd
    \/ WidgetsCell
    \/ LeafletCell
    \/ FilesaverCell
    \/ UserDraw
    \/ UserSetValue
    \/ UserChooseFile
    \/ UserClick
    \/ LoopStart
    \/ LoopIssue
    \/ LoopReturn
    \/ LoopEnd
    \/ GeoDataCell
    \/ SaveCell
    \/ SaveReturn
    \/ LoadCell
    \/ ApplyCell

Spec == Init /\ [][Next]_vars

----------------------------------------------------------------------------
(* s3_retrieve as a function of the rows the reads deliver *)

\* the most rows the reads of one call deliver
MaxArrived == 3

\* the times a delivered row can carry
Times == {1, 2}

\* the rows a read of beam number b can deliver: a time, the ground-track
\* code the loop gives the rows of the beam, and whether the point lies in
\* the polygon
ArrivedRows(b) == [time : Times, gt : {GtCode[b]}, inside : BOOLEAN]

\* the frames the loop can build for beam number b, in any order of arrival
FramesOf(b) ==
    {[cols |-> S3DataCols, rows |-> r] : r \in SeqsUpTo(ArrivedRows(b), MaxArrived)}

\* the frames collected when the loop over the beams ends: none, or those of
\* the first beam, or those of the first two beams, in the order of the beams
CollectedFrames ==
    {<<>>} \cup {<<f>> : f \in FramesOf(1)} \cup
    UNION {{<<f, g>> : g \in {x \in FramesOf(2) : Len(f.rows) + Len(x.rows) <= MaxArrived}} :
              f \in FramesOf(1)}

\* s3_retrieve(atl06_granule, polygon=region_gdf) at the end of its loop over
\* the beams, for every collection of frames
InitArrival ==
    /\ nb = "single"
    /\ pc = 6
    /\ at = "beam"
    /\ status = "running"
    /\ error = "none"
    /\ raised = {}
    /\ effects = {}
    /\ config = InitArgs("single")
    /\ initCalls = 1
    /\ issued = <<>>
    /\ outstanding = {}
    /\ assetBound = TRUE
    /\ parms = SingleParms
    /\ tbl = [v \in TableVars |-> Unbound]
    /\ granule \in GranuleNames
    /\ s3arg = Atl06Granule(granule)
    /\ k = Len(Beams) + 1
    /\ elevations = <<>>
    /\ frames \in CollectedFrames
    /\ SRwidgets = NoWidgets
    /\ m = NoMap
    /\ store = [f \in Files \X Formats |-> NoFile]
    /\ regions = <<>>
    /\ applied = NoApplied

\* the rest of s3_retrieve: concatenation, overlay, index, sort, duplicates
NextArrival == S3Finish

ArrivalSpec == InitArrival /\ [][NextArrival]_vars

----------------------------------------------------------------------------
(* the request cell of api_widgets_demo.ipynb run again *)

\* the name of a region of an earlier map, which is not on the map now
EarlierRegion == 0

\* what an earlier run of the request cell left in the kernel: nothing (the
\* cell runs for the first time), or the parameters, the list of results and
\* the table of a run over a region of an earlier map
EarlierRuns ==
    {[parms |-> NoParms, elevations |-> <<>>, gdf |-> Unbound, issued |-> <<>>]} \cup
    {[parms      |-> WithKey([len |-> len], "poly", EarlierRegion),
      elevations |-> <<EmptyFrame, t>>,
      gdf        |-> Concat(<<EmptyFrame, t>>),
      issued     |-> <<Request("atl06p", 1, WithKey([len |-> len], "poly", EarlierRegion), FALSE)>>] :
        len \in Lengths, t \in RegionResults(EarlierRegion) \ {EmptyFrame}}

\* the kernel when the request cell is started: the widgets and the map
\* exist, the user has set the length and drawn regions, and an earlier run
\* of the cell may have left its results
InitRerun ==
    /\ nb = "widgets"
    /\ pc = 7
    /\ at = "start"
    /\ status = "running"
    /\ error = "none"
    /\ raised = {}
    /\ effects = {}
    /\ config = InitArgs("widgets")
    /\ initCalls = 1
    /\ outstanding = {}
    /\ assetBound = FALSE
    /\ \E e \in EarlierRuns :
          /\ parms = e.parms
          /\ elevations = e.elevations
          /\ tbl = [v \in TableVars |-> IF v = "gdf" THEN e.gdf ELSE Unbound]
          /\ issued = e.issued
    /\ granule = NoGranule
    /\ s3arg = NoGranule
    /\ k \in {0, MaxRegions + 1}
    /\ frames = <<>>
    /\ \E len \in Lengths : SRwidgets = [NoWidgets EXCEPT !.created = TRUE, !.length = len]
    /\ \E n \in 0..MaxRegions :
          m = [NoMap EXCEPT !.created = TRUE, !.callback = "atl06_click_handler",
                            !.regions = [i \in 1..n |-> i]]
    /\ store = [f \in Files \X Formats |-> NoFile]
    /\ regions = <<>>
    /\ applied = NoApplied

\* the statements of the request cell
NextRerun ==
    \/ LoopStart
    \/ LoopIssue
    \/ LoopReturn
    \/ LoopEnd

RerunSpec == InitRerun /\ [][NextRerun]_vars

----------------------------------------------------------------------------
(* s3_retrieve as a function of the granule name *)

\* the granule names s3_retrieve can be called with: whether the name
\* matches the file-name pattern, and the product its first field names
GranuleArgs == [matches : BOOLEAN, prd : {"ATL03", "ATL06", "ATL08"}]

\* a call of s3_retrieve(granule, polygon=region_gdf) with any granule name
InitCall ==
    /\ nb = "single"
    /\ pc = 6
    /\ at = "call"
    /\ status = "running"
    /\ error = "none"
    /\ raised = {}
    /\ effects = {}
    /\ config = InitArgs("single")
    /\ initCalls = 1
    /\ issued = <<>>
    /\ outstanding = {}
    /\ assetBound \in BOOLEAN
    /\ parms = SingleParms
    /\ tbl = [v \in TableVars |-> Unbound]
    /\ granule = NoGranule
    /\ s3arg \in GranuleArgs
    /\ k = 0
    /\ elevations = <<>>
    /\ frames = <<>>
    /\ SRwidgets = NoWidgets
    /\ m = NoMap
    /\ store = [f \in Files \X Formats |-> NoFile]
    /\ regions = <<>>
    /\ applied = NoApplied

\* def s3_retrieve(granule, **kwargs): ... rx.findall(granule).pop() ...
\* frames = []: the function takes the name it was given apart
S3Call ==
    /\ Running("s3_call", "call")
    /\ IF RxFindall(s3arg) = <<>>
       THEN Propagate("rx.findall.pop", "IndexError") /\ UNCHANGED loop
       ELSE /\ frames' = <<>>
            /\ k' = 1
            /\ at' = "beam"
            /\ UNCHANGED <<nb, pc, status, error, raised, elevations, s3arg>>
    /\ UNCHANGED <<effects, sess, net, assetBound, data, ui>>

\* the statements of s3_retrieve
NextCall ==
    \/ S3Call
    \/ S3Beam
    \/ S3BeamReturn
    \/ S3Finish

CallSpec == InitCall /\ [][NextCall]_vars

----------------------------------------------------------------------------
(* Properties *)

\* the table carries the identifier column, and no two of its rows share an
\* identifier
HasId(t)     == "extent_id" \in t.cols
UniqueIds(t) == \A i, j \in 1..Len(t.rows) :
                    t.rows[i].extent_id = t.rows[j].extent_id => i = j

\* both requests of the PhoREAL notebook have returned
BothReturned == nb = "phoreal" /\ pc >= 11

InCell(kind) == pc <= Len(Cells(nb)) /\ Kind = kind
Past(kind)   == \E i \in 1..Len(Cells(nb)) : Cells(nb)[i] = kind /\ pc > i

\* the file the file widgets name
ChosenFile == store[<<SRwidgets.file, SRwidgets.format>>]

RegionRequests == {i \in 1..Len(issued) : issued[i].api = "atl06p"}

\* C3: a written file holds the parameters of the requests the table came
\* from and the regions they were made for; after the load cell parms and
\* regions are the ones in the file, and they are what set_values and
\* add_region were called with
C3_SavedWithParmsAndRegions ==
    nb = "widgets" =>
      \A f \in DOMAIN store : store[f].written =>
        /\ store[f].container = f[2]
        /\ \A i \in RegionRequests :
              /\ issued[i].input \in 1..Len(store[f].polygons)
              /\ store[f].polygons[issued[i].input] = issued[i].parms["poly"]
              /\ \A key \in DOMAIN issued[i].parms \ {"poly"} :
                    /\ key \in DOMAIN store[f].attributes
                    /\ store[f].attributes[key] = issued[i].parms[key]
        /\ Past("load") => parms = store[f].attributes /\ regions = store[f].polygons
        /\ applied.called =>
              /\ applied.parms = store[f].attributes
              /\ applied.regions = store[f].polygons
              /\ SRwidgets.length = store[f].attributes["len"]

\* C3: parameters and two regions went through a file and were applied
C3_AppliedFromFile ==
    /\ nb = "widgets" /\ applied.called
    /\ Len(applied.regions) = 2
    /\ Cardinality(RegionRequests) = 2
    /\ "version" \in DOMAIN applied.parms

\* the failures that were swallowed, and those that were not
Swallowed  == {r \in raised : r.caught}
Propagated == {r \in raised : ~r.caught}

\* C4 (as stated): no operation swallows a failure and continues
C4_NoFailureSwallowed == Swallowed = {}

\* C4 (amended): a failure is swallowed only inside s3_retrieve, at the read
\* of a beam and at the concatenation of the frames; every other failure
\* propagates: it ends the run as the error of the cell that raised it
C4_OnlyS3RetrieveSwallows ==
    /\ \A r \in Swallowed :
          /\ nb = "single" /\ (InCell("s3_call") \/ Past("s3_call"))
          /\ r.site \in {"h5p", "concat"}
    /\ \A r \in Propagated : status = "error" /\ error = r.exc
    /\ status = "error" => Propagated # {}
    /\ Cardinality(Propagated) <= 1

\* C4: a read of s3_retrieve raised and was swallowed, the function returned,
\* and a later failure ended the run
C4_SwallowedThenPropagated ==
    /\ nb = "single" /\ Past("s3_call") /\ status = "error"
    /\ \E r \in Swallowed : r.site = "h5p" /\ r.exc = "Exception"

\* the lookups of cell number c that find no such column in the tables as
\* they are now
Lacking(c) ==
    {i \in 1..Len(Uses(Cells(nb)[c])) :
        Uses(Cells(nb)[c])[i][2] \notin tbl[Uses(Cells(nb)[c])[i][1]].cols}

FirstLacking(c) ==
    Uses(Cells(nb)[c])[CHOOSE i \in Lacking(c) : \A j \in Lacking(c) : i <= j]

\* C5: a run that ended with KeyError ended at the first lookup of its cell
\* that finds no column, the error was not caught, and the cell left no
\* output; and no cell whose lookups find no column was completed
C5_MissingColumnEndsCell ==
    /\ (status = "error" /\ error = "KeyError") =>
          /\ Lacking(pc) # {}
          /\ [site |-> FirstLacking(pc)[2], exc |-> "KeyError", caught |-> FALSE] \in raised
          /\ \A e \in effects : e[1] # pc
    /\ \A c \in 1..Len(Cells(nb)) : c < pc => Lacking(c) = {}

\* C5: the comparison cell of the single-track notebook ended with
\* KeyError 'gt', raised by the lookup on atl06 (gdf has the column)
C5_CompareEndedWithKeyErrorGt ==
    /\ nb = "single" /\ InCell("compare")
    /\ status = "error" /\ error = "KeyError"
    /\ [site |-> "gt", exc |-> "KeyError", caught |-> FALSE] \in raised
    /\ "gt" \in tbl["gdf"].cols

\* C6: at most one request is outstanding, and it is the last one issued;
\* in the region loop the request of region k is issued when the results of
\* the regions before it have been appended
C6_OneOutstandingRequest ==
    /\ Cardinality(outstanding) <= 1
    /\ outstanding \subseteq {Len(issued)}
    /\ (nb = "widgets" /\ InCell("region_loop") /\ at \in {"loop", "wait"}) =>
          /\ Len(elevations) = k
          /\ Cardinality(RegionRequests) = (IF at = "wait" THEN k ELSE k - 1)
          /\ outstanding # {} => issued[Len(issued)].input = k

\* C6: the request of the second region is outstanding, the result of the
\* first has been appended
C6_SecondRegionOutstanding ==
    /\ nb = "widgets" /\ InCell("region_loop") /\ at = "wait"
    /\ k = 2 /\ outstanding = {Len(issued)}
    /\ Len(elevations) = 2 /\ elevations[2].rows # <<>>

\* C7: no two requests of a run have the same endpoint and the same input
C7_NoRequestIssuedTwice ==
    \A i, j \in 1..Len(issued) :
        (issued[i].api = issued[j].api /\ issued[i].input = issued[j].input) => i = j

\* C7: a read of a beam failed, and the run went on to read all six beams
C7_FailedReadNotRepeated ==
    /\ nb = "single" /\ Past("s3_call")
    /\ \E r \in Swallowed : r.site = "h5p" /\ r.exc = "Exception"
    /\ Cardinality({i \in 1..Len(issued) : issued[i].api = "h5p"}) = Len(Beams)

\* C8: the initializer is called at most once; once its cell is passed, and
\* whenever a request has been issued, it has been called exactly once and
\* the configuration is the one it set
C8_InitOnceBeforeRequests ==
    /\ initCalls <= 1
    /\ config \in {NoConfig, InitArgs(nb)}
    /\ (Past("init") \/ issued # <<>>) => initCalls = 1 /\ config = InitArgs(nb)

\* C8: a run has finished after a request
C8_DoneAfterRequest ==
    /\ nb = "boulder" /\ status = "done"
    /\ Len(issued) = 1 /\ initCalls = 1

\* C9: the requests of the PhoREAL notebook are the ATL08 request and then
\* the ATL06 request, over the same input, with the parameter mapping the
\* notebook wrote down, both with keep_id; a table that came back with rows
\* carries extent_id
C9_SameParmsBothKeepId ==
    nb = "phoreal" =>
      /\ \A i \in 1..Len(issued) :
            /\ issued[i].api = <<"atl08p", "atl06p">>[i]
            /\ issued[i].parms = PhorealParms
            /\ issued[i].input = "region"
            /\ issued[i].keep_id
      /\ Len(issued) <= 2
      /\ Past("phoreal_parms") => parms = PhorealParms
      /\ \A v \in {"atl08", "atl06"} : tbl[v].rows # <<>> => HasId(tbl[v])

\* C9: both requests have been made and both tables came back with rows
C9_BothRequestsAnswered ==
    /\ nb = "phoreal" /\ InCell("merge") /\ Len(issued) = 2
    /\ tbl["atl08"].rows # <<>> /\ tbl["atl06"].rows # <<>>

\* a step in which the map handles a click on a plotted elevation
ClickHandled == nb = "widgets" /\ m'.selected # m.selected /\ m'.selected # 0

C11_HandlerInstalledBeforeData ==
    [][/\ (nb = "widgets" /\ m'.plotted # <<>>) => m'.callback = "atl06_click_handler"
       /\ ClickHandled =>
             /\ m.callback = "atl06_click_handler"
             /\ SRwidgets'.rgt = m.plotted[m'.selected].rgt
             /\ SRwidgets'.cycle = m.plotted[m'.selected].cycle]_vars

\* C11: an elevation of the second pass was clicked and the selectors show
\* its RGT and cycle
C11_SelectorsShowClicked ==
    /\ nb = "widgets" /\ m.selected # 0
    /\ m.plotted[m.selected].rgt = 2 /\ m.plotted[m.selected].cycle = 3
    /\ SRwidgets.rgt = 2 /\ SRwidgets.cycle = 3

\* the beams whose profile with this label the comparison cell has drawn
Profiles(label) == {e[3] : e \in {x \in effects : Len(x) = 3 /\ x[2] = label}}

BuiltFromLeft(mrows, left, right) ==
    \A i \in 1..Len(mrows) :
        /\ i <= Len(left.rows)
        /\ mrows[i].extent_id = left.rows[i].extent_id
        /\ mrows[i].left = left.rows[i].time
        /\ IF \E j \in 1..Len(right.rows) : right.rows[j].extent_id = left.rows[i].extent_id
           THEN \E j \in 1..Len(right.rows) :
                   /\ right.rows[j].extent_id = left.rows[i].extent_id
                   /\ mrows[i].right = right.rows[j].time
           ELSE mrows[i].right = NaN

\* C13 (as stated): for every pair of result tables, row i of the merge is
\* built from row i of the left table
C13_EveryMergeFollowsLeft ==
    (BothReturned /\ HasId(tbl["atl08"]) /\ HasId(tbl["atl06"])) =>
        BuiltFromLeft(pdMerge(tbl["atl08"], tbl["atl06"]).rows, tbl["atl08"], tbl["atl06"])

\* C13 (amended): the table the merge cell assigns to gdf has one row for
\* each left row, in the left table's order, row i built from left row i and
\* labelled with the index of left row i; the merge of a right table without
\* repeated extent_id is of this form; a merge that is not makes set_axis fail
C13_AssignedMergeFollowsLeft ==
    (BothReturned /\ HasId(tbl["atl08"]) /\ HasId(tbl["atl06"])) =>
        LET left   == tbl["atl08"]
            right  == tbl["atl06"]
            merged == pdMerge(left, right)
        IN  /\ status = "done" =>
                  /\ Len(tbl["gdf"].rows) = Len(left.rows)
                  /\ BuiltFromLeft(tbl["gdf"].rows, left, right)
                  /\ Index(tbl["gdf"]) = Index(left)
            /\ UniqueIds(right) => BuiltFromLeft(merged.rows, left, right)
            /\ (Past("atl06_request") /\ pc = Len(Cells(nb)) /\ status = "error") =>
                  /\ error = "ValueError"
                  /\ ~BuiltFromLeft(merged.rows, left, right)

\* C13: the merge ran on a right table whose rows are in another order than
\* the left table's; the merged table is in the left table's order and
\* carries the left table's index
C13_MergedAcrossOrders ==
    /\ nb = "phoreal" /\ status = "done"
    /\ Len(tbl["atl08"].rows) = 2 /\ Len(tbl["atl06"].rows) = 2
    /\ tbl["atl08"].rows[1].extent_id = tbl["atl06"].rows[2].extent_id
    /\ tbl["atl08"].rows[2].extent_id = tbl["atl06"].rows[1].extent_id
    /\ tbl["atl08"].rows[1].extent_id # tbl["atl08"].rows[2].extent_id
    /\ tbl["gdf"].rows[1].right = tbl["atl06"].rows[2].time
    /\ Index(tbl["gdf"]) = Index(tbl["atl08"])

\* the rows the reads of the call delivered, in the order they arrived in
Arrived == ConcatRows(frames)

\* the same rows arriving in another order
Reordered(rows, p) == [i \in 1..Len(rows) |-> rows[p[i]]]

\* the tables s3_retrieve can return when these rows arrive in this order
ReturnsOf(rows) == S3Results([cols |-> S3DataCols, rows |-> rows], TRUE, "time")

S3Returned == nb = "single" /\ Past("s3_call")

\* C15: a table with rows that s3_retrieve returned has the index key as its
\* index and no longer as a column, its index values increase strictly from
\* row to row (sorted, no value twice), and they are the index values of the
\* delivered rows that lie in the polygon
C15_ReturnedIndexSortedUnique ==
    (S3Returned /\ tbl["atl06"].rows # <<>>) =>
        LET t == tbl["atl06"]
        IN  /\ "time" \notin t.cols /\ "geometry" \in t.cols
            /\ \A i, j \in 1..Len(t.rows) : i < j => Index(t)[i] < Index(t)[j]
            /\ {Index(t)[i] : i \in 1..Len(t.rows)} =
                   {Arrived[i].time : i \in {j \in 1..Len(Arrived) : Arrived[j].inside}}
            /\ \A i \in 1..Len(t.rows) : \E j \in 1..Len(Arrived) : t.rows[i] = Arrived[j]

\* C15: s3_retrieve returned two rows for rows of two beams that arrived
\* with the later time first and one time on both beams
C15_ReturnedFromTwoBeams ==
    /\ S3Returned /\ Len(frames) = 2 /\ Len(Arrived) = 3
    /\ Arrived[1].time > Arrived[2].time
    /\ Arrived[2].time = Arrived[3].time /\ Arrived[2].gt # Arrived[3].gt
    /\ \A i \in 1..3 : Arrived[i].inside
    /\ Len(tbl["atl06"].rows) = 2

\* s3_retrieve is in its loop over the beams
InBeamLoop == nb = "single" /\ InCell("s3_call") /\ at \in {"beam", "beam_wait"}

\* a step in which the loop is done with beam number k
BeamSettled == InBeamLoop /\ k <= Len(Beams) /\ at' = "beam"

\* the reads issued by s3_retrieve so far, in the order they were issued
BeamReads == SelectSeq(issued, LAMBDA r : r.api = "h5p")

\* C16: the beams are taken in the order of the list, one after the other; a
\* beam whose read fails leaves the frames as they are, is swallowed, and the
\* loop goes on to the next beam; a beam that succeeds appends its frame; so
\* the frames collected are those of the beams that succeeded, in beam order
C16_BeamsTriedInOrder ==
    [][/\ BeamSettled =>
             /\ k' = k + 1
             /\ status' = "running"
             /\ \/ /\ frames' = frames
                   /\ \E r \in raised' : r.site = "h5p" /\ r.caught
                \/ /\ \E n \in 0..MaxBeamRows : frames' = Append(frames, BeamFrame(k, n))
                   /\ raised' = raised
       /\ InBeamLoop =>
             /\ \A i \in 1..Len(BeamReads) : BeamReads[i].input = Beams[i]
             /\ Len(BeamReads) \in {0, IF at = "beam_wait" THEN k ELSE k - 1}
             /\ Len(frames) <= k - 1
             /\ \A i, j \in 1..Len(frames) :
                   (i < j /\ frames[i].rows # <<>> /\ frames[j].rows # <<>>) =>
                       frames[i].rows[1].gt < frames[j].rows[1].gt
       /\ (InBeamLoop /\ ~BeamSettled) => frames' = frames]_vars

\* C16: the read of the first beam failed, and the five later beams were
\* read and their frames collected
C16_LaterBeamsAfterFailure ==
    /\ InBeamLoop /\ k = Len(Beams) + 1
    /\ Len(frames) = Len(Beams) - 1
    /\ frames[1].rows # <<>> /\ frames[1].rows[1].gt = GtCode[2]
    /\ \E r \in Swallowed : r.site = "h5p"

\* the request cell is past its first statements, or has completed
LoopStarted ==
    nb = "widgets" /\ ((InCell("region_loop") /\ at # "start") \/ Past("region_loop"))

\* the requests made for the regions on the map now
RequestsNow == {i \in RegionRequests : issued[i].parms["poly"] # EarlierRegion}

\* C17: once a run of the request cell has started, the parameters are those
\* built from the widget values, the list of results holds the empty frame
\* and the answers of the requests of this run, one request per region on
\* the map and in the order of the regions; the table a completed run binds to
\* gdf is the concatenation of this list and holds no row of an earlier run
C17_RunReplacesResults ==
    LoopStarted =>
        /\ parms["len"] = SRwidgets.length
        /\ \A i \in RequestsNow :
              /\ issued[i].input \in 1..Len(m.regions)
              /\ issued[i].parms = WithKey(build_atl06(SRwidgets), "poly",
                                           m.regions[issued[i].input])
        /\ Len(elevations) \in 1..(1 + Cardinality(RequestsNow))
        /\ Cardinality(RequestsNow) <= Len(m.regions)
        /\ elevations[1] = EmptyFrame
        /\ \A j \in 2..Len(elevations) : elevations[j] \in RegionResults(m.regions[j - 1])
        /\ Past("region_loop") =>
              /\ Cardinality(RequestsNow) = Len(m.regions)
              /\ Len(elevations) = 1 + Len(m.regions)
              /\ tbl["gdf"] = Concat(elevations)
              /\ \A i \in 1..Len(tbl["gdf"].rows) :
                    /\ tbl["gdf"].rows[i].region # EarlierRegion
                    /\ \E j \in 1..Len(m.regions) : tbl["gdf"].rows[i].region = m.regions[j]

\* C17: the cell ran over two regions after an earlier run had left a table
\* made with another segment length
C17_RanAgainOverTwoRegions ==
    /\ nb = "widgets" /\ Past("region_loop")
    /\ \E i \in RegionRequests :
          /\ issued[i].parms["poly"] = EarlierRegion
          /\ issued[i].parms["len"] # SRwidgets.length
    /\ Len(m.regions) = 2
    /\ Len(tbl["gdf"].rows) = 2

\* the single-track notebook is run as written: nothing has bound `asset`
AsWritten == nb = "single" /\ ~assetBound

\* C18: in the single-track notebook as written no read is issued by
\* s3_retrieve, the failure of each beam is a swallowed NameError, the table
\* s3_retrieve returns is the empty frame, the comparison cell never gets
\* past its first track and never completes, a run that reaches it ends
\* there with KeyError 'gt', and the standard profile is never plotted
C18_AsWrittenComparisonFails ==
    AsWritten =>
        /\ BeamReads = <<>>
        /\ frames = <<>>
        /\ \A r \in Swallowed :
              \/ r.site = "h5p" /\ r.exc = "NameError"
              \/ r.site = "concat" /\ r.exc = "ValueError"
        /\ Past("s3_call") =>
              /\ tbl["atl06"] = EmptyFrame
              /\ Swallowed = {[site |-> "h5p", exc |-> "NameError", caught |-> TRUE],
                              [site |-> "concat", exc |-> "ValueError", caught |-> TRUE]}
        /\ ~Past("compare") /\ status # "done"
        /\ Profiles("ASAS") = {} /\ Profiles("SlideRule") = {}
        /\ (InCell("compare") /\ at = "track") =>
              /\ k = 1
              /\ "gt" \in tbl["gdf"].cols
              /\ status = "error" =>
                    /\ error = "KeyError"
                    /\ [site |-> "gt", exc |-> "KeyError", caught |-> FALSE] \in raised

\* C18: the notebook as written ran into the comparison cell, which ended
\* with KeyError 'gt' on the empty frame s3_retrieve had returned
C18_AsWrittenEndedInComparison ==
    /\ AsWritten /\ InCell("compare") /\ status = "error" /\ error = "KeyError"
    /\ tbl["atl06"] = EmptyFrame /\ tbl["gdf"].rows # <<>>
    /\ [site |-> "h5p", exc |-> "NameError", caught |-> TRUE] \in raised

\* the failure of the concatenation, swallowed
ConcatSwallowed == [site |-> "concat", exc |-> "ValueError", caught |-> TRUE]

\* C19: when the loop over the beams ends with no frame, s3_retrieve returns
\* the empty frame: the failure of the concatenation is swallowed, nothing
\* is raised to the caller, and the run goes on to the next cell; the table
\* is the empty frame itself, and the index key is set as index only for a
\* table made from frames
C19_NoFrameReturnsEmptyFrame ==
    [][/\ (InBeamLoop /\ k > Len(Beams) /\ frames = <<>>) =>
             /\ tbl'["atl06"] = EmptyFrame
             /\ raised' = raised \cup {ConcatSwallowed}
             /\ status' = "running" /\ error' = "none"
             /\ pc' = pc + 1
             /\ issued' = issued /\ effects' = effects
       /\ (InBeamLoop /\ k > Len(Beams) /\ frames # <<>>) =>
             /\ raised' = raised
             /\ tbl'["atl06"] \in S3Results(Concat(frames), TRUE, "time")
             /\ tbl'["atl06"].cols # EmptyFrame.cols]_vars

\* C19: all six beams were read, every read failed, and s3_retrieve returned
\* the empty frame to the cell, which completed
C19_AllReadsFailed ==
    /\ nb = "single" /\ pc = 7 /\ at = "start" /\ status = "running"
    /\ Len(BeamReads) = Len(Beams)
    /\ frames = <<>> /\ tbl["atl06"] = EmptyFrame
    /\ ConcatSwallowed \in raised

\* the name s3_retrieve was called with is one it has no branch for: it does
\* not match the pattern, or its product is neither ATL06 nor ATL08
Unsupported == ~s3arg.matches \/ s3arg.prd \notin {"ATL06", "ATL08"}

\* C20: a call of s3_retrieve with a name it has no branch for issues no
\* read, swallows nothing, collects no frame and returns nothing; it ends
\* with an error that is not caught: IndexError for a name that does not
\* match the pattern, UnboundLocalError at the first beam for another product
C20_UnsupportedNameRaises ==
    (nb = "single" /\ InCell("s3_call") /\ Unsupported) =>
        /\ issued = <<>> /\ outstanding = {}
        /\ Swallowed = {}
        /\ frames = <<>>
        /\ tbl["atl06"] = Unbound
        /\ status # "done"
        /\ at \in {"call", "beam"}
        /\ at = "beam" => s3arg.matches /\ k = 1
        /\ status = "error" =>
              /\ error = (IF s3arg.matches THEN "UnboundLocalError" ELSE "IndexError")
              /\ Propagated = {[site   |-> (IF s3arg.matches THEN "geodatasets"
                                                             ELSE "rx.findall.pop"),
                                 exc    |-> error,
                                 caught |-> FALSE]}
        /\ status = "running" => raised = {}

\* C20: s3_retrieve was called with the name of an ATL03 granule and ended
\* with UnboundLocalError before any read
C20_OtherProductRaised ==
    /\ nb = "single" /\ InCell("s3_call")
    /\ s3arg.matches /\ s3arg.prd = "ATL03" /\ assetBound
    /\ status = "error" /\ error = "UnboundLocalError"
    /\ issued = <<>>

====
